---- MODULE Spec2Model ----
(***************************************************************************)
(* Model of gpgpu-rs' Framework (src/src/framework.rs): the Device Context *)
(* that creates typed buffers, images and kernel builders and drives the   *)
(* device's task queue with poll / blocking_poll.                          *)
(*                                                                         *)
(* The machine word (usize) is modelled WordBits wide, so that the size    *)
(* arithmetic can overflow inside a finite state space.                    *)
(***************************************************************************)
EXTENDS Integers, Sequences, FiniteSets, TLC

\* ------------------------------------------------------------------ bounds
WordBits == 3
MaxData == 2
\* the number of operations the host calls on the Framework and its buffers
MaxOps == 3
MaxBuffers == 1
\* the number of buffer operations the host calls in the polling specification
MaxPollOps == 2
\* the largest width and height the host asks create_image for
MaxDim == 1
MaxImages == 2
\* the number of resources added to a KernelBuilder, and its largest set index
MaxBindings == 3
MaxSet == 1

\* ----------------------------------------------------------- machine words
RECURSIVE Pow(_, _)
Pow(b, n) == IF n = 0 THEN 1 ELSE b * Pow(b, n - 1)

UsizeCard == Pow(2, WordBits)
UsizeMax == UsizeCard - 1
\* isize::MAX: no Rust slice spans more bytes than this
IsizeMax == Pow(2, WordBits - 1) - 1
\* u64 is at least as wide as usize on every target
U64Card == Pow(2, 2 * WordBits)

\* `size as u64`
AsU64(x) == x % U64Card

\* std::mem::size_of::<T>() of the Pod element types of the model
ElemSizes == {1, 2}

\* the number of values of a byte (u8)
ByteBase == 256

\* the two element values the host puts in its slices: a small one, and one
\* whose bytes all differ from it and, for wider types, from each other
Small(sz) == 1
Big(sz) == Pow(ByteBase, sz) - 2

\* host slices &[T] the caller can hold: at most MaxData elements, never more
\* than isize::MAX bytes; of each length the two that alternate Small and Big
Slices(sz) ==
  {s \in UNION {{[i \in 1 .. n |-> IF i % 2 = 1 THEN Small(sz) ELSE Big(sz)],
                 [i \in 1 .. n |-> IF i % 2 = 1 THEN Big(sz) ELSE Small(sz)]}
                : n \in 0 .. MaxData} :
     Len(s) * sz <= IsizeMax}

\* the element counts the host asks create_buffer for: the small ones, one whose
\* byte size overflows usize for the wider element types, and the largest
Lens == (0 .. MaxData) \cup {UsizeMax \div 2 + 1, UsizeMax}

\* ------------------------------------------------------------ byte casts
\* one element as its size_of::<T>() bytes, least significant first
ElemBytes(e, sz) == [i \in 1 .. sz |-> (e \div Pow(ByteBase, i - 1)) % ByteBase]

RECURSIVE cast_slice(_, _)
\* bytemuck::cast_slice(data): &[T] -> &[u8]
cast_slice(data, sz) ==
  IF data = <<>> THEN <<>>
  ELSE ElemBytes(Head(data), sz) \o cast_slice(Tail(data), sz)

RECURSIVE BytesElem(_)
BytesElem(bs) == IF bs = <<>> THEN 0 ELSE Head(bs) + ByteBase * BytesElem(Tail(bs))

RECURSIVE cast_bytes(_, _)
\* bytemuck::cast_slice(bytes): &[u8] -> &[T], as the read path copies out
cast_bytes(bs, sz) ==
  IF Len(bs) < sz THEN <<>>
  ELSE <<BytesElem(SubSeq(bs, 1, sz))>> \o cast_bytes(SubSeq(bs, sz + 1, Len(bs)), sz)

Zeroes(n) == [i \in 1 .. n |-> 0]

\* ------------------------------------------------------------------ state
VARIABLES
  pc,        \* "start" | "ready" | "panicked": the host process
  profile,   \* "debug" | "release": whether arithmetic overflow is checked
  env,       \* what the platform answered to request_adapter / request_device
  fw,        \* the Framework value, or NoFramework
  buffers,   \* the GpuBuffers created so far, in creation order
  images,    \* the GpuImages created so far, in creation order
  queue,     \* commands submitted to the device queue and not yet executed
  handles,   \* the futures of the asynchronous reads, in creation order
  kb,        \* the KernelBuilder, or NoBuilder
  kernel,    \* the Kernel built from it, or NoKernel
  ops,       \* the number of operations the host has called since construction
  last       \* the last operation the host called, and what it returned

vars == <<pc, profile, env, fw, buffers, images, queue, handles, kb, kernel, ops, last>>

NoFramework == [via |-> "none"]
NoBuilder == [state |-> "none"]
NoKernel == [state |-> "none"]
NoEnv == [adapter |-> "unasked", device |-> "unasked"]
NoData == <<>>

\* what `last` records: the operation, the buffer it was called on, the phase
\* and data that buffer had before the call, the result, the sequence returned
\* and the number of operations that were pending when it was called
Ret(op, ret) ==
  [op |-> op, buf |-> 0, from |-> "none", data |-> NoData, ret |-> ret,
   out |-> NoData, npend |-> 0]

Init ==
  /\ pc = "start"
  /\ profile \in {"debug", "release"}
  /\ env = NoEnv
  /\ fw = NoFramework
  /\ buffers = <<>>
  /\ images = <<>>
  /\ queue = <<>>
  /\ handles = <<>>
  /\ kb = NoBuilder
  /\ kernel = NoKernel
  /\ ops = 0
  /\ last = Ret("none", "none")

\* ----------------------------------------------------------- construction
\* Option::unwrap / Result::unwrap: the value, or a panic
unwrap_or_null(r) == IF r \in {"None", "Err"} THEN "null" ELSE r
unwrap(r) == IF r \in {"None", "Err"} THEN "panic" ELSE r

\* impl Default for Framework
Default ==
  /\ pc = "start"
  /\ \E a \in {"None", "adapter"}, d \in {"Err", "device"} :
       LET adapter == unwrap(a)
           \* request_device is only reached with an adapter in hand
           asked == IF adapter = "panic" THEN "unasked" ELSE d
           device == IF adapter = "panic" THEN "panic" ELSE unwrap(asked)
       IN /\ env' = [adapter |-> a, device |-> asked]
          /\ IF device = "panic"
               THEN /\ pc' = "panicked"
                    /\ fw' = fw
                    /\ last' = Ret("default", "panic")
               ELSE /\ pc' = "ready"
                    /\ fw' = [via |-> "default", instance |-> "instance",
                              device |-> device, queue |-> "queue"]
                    /\ last' = Ret("default", "ok")
  /\ UNCHANGED <<profile, buffers, images, queue, handles, kb, kernel, ops>>

\* Framework::new(instance, device, queue)
New ==
  /\ pc = "start"
  /\ pc' = "ready"
  /\ fw' = [via |-> "new", instance |-> "instance", device |-> "device",
            queue |-> "queue"]
  /\ last' = Ret("new", "ok")
  /\ UNCHANGED <<profile, env, buffers, images, queue, handles, kb, kernel, ops>>

\* ---------------------------------------------------------------- buffers
\* `a * b` on usize: checked in a debug build, wrapping in a release build
MulUsize(a, b) ==
  IF a * b <= UsizeMax THEN [panic |-> FALSE, val |-> a * b]
  ELSE IF profile = "debug" THEN [panic |-> TRUE, val |-> 0]
  ELSE [panic |-> FALSE, val |-> (a * b) % UsizeCard]

\* the usage flags create_buffer asks for
CreateBufferUsageNoCopySrc == {"STORAGE", "COPY_DST"}
CreateBufferUsage == {"STORAGE", "COPY_SRC", "COPY_DST"}

\* the usage flags create_buffer_from_slice asks for
CreateBufferInitUsage == {"STORAGE", "COPY_SRC", "COPY_DST"}

\* the contents create_buffer_from_slice hands to create_buffer_init
InitContentsUnseeded(data, sz) == Zeroes(Len(data) * sz)
InitContents(data, sz) == cast_slice(data, sz)

\* the usage flags create_staging_buffer asks for
StagingUsage == {"MAP_READ", "COPY_DST"}

\* GpuBuffer { fw, storage, size, _marker }: elemSize is T; storage is the
\* device buffer (descriptor size, usage, memory); len, phase and pdata record
\* how the buffer came to be, for the properties
GpuBuffer(sz, len, size, devSize, usage, data, phase, pdata) ==
  [elemSize |-> sz, len |-> len, size |-> size, devSize |-> devSize,
   usage |-> usage, data |-> data, phase |-> phase, pdata |-> pdata]

\* the GpuBuffer create_buffer_from_slice builds once the size is computed
BufferFromSlice(sz, data, size) ==
  GpuBuffer(sz, Len(data), size, AsU64(Len(InitContents(data, sz))),
            CreateBufferInitUsage, InitContents(data, sz), "fresh_slice", data)

\* the GpuBuffer create_buffer_from_slice returns for a slice that fits a word
SliceBuffer(sz, data) == BufferFromSlice(sz, data, MulUsize(Len(data), sz).val)

\* Framework::create_buffer::<T>(len)
CreateBuffer ==
  /\ pc = "ready"
  /\ \E sz \in ElemSizes, len \in Lens :
       LET mul == MulUsize(len, sz)
           size == mul.val
       IN IF mul.panic
            THEN /\ pc' = "panicked"
                 /\ buffers' = buffers
                 /\ last' = Ret("create_buffer", "panic")
            ELSE /\ pc' = pc
                 /\ buffers' = Append(buffers,
                      GpuBuffer(sz, len, size, AsU64(size), CreateBufferUsage,
                                Zeroes(size), "fresh_empty", NoData))
                 /\ last' = [Ret("create_buffer", "ok") EXCEPT !.buf = Len(buffers) + 1]
  /\ ops' = ops + 1
  /\ UNCHANGED <<profile, env, fw, images, queue, handles, kb, kernel>>

\* Framework::create_buffer_from_slice::<T>(data)
CreateBufferFromSlice ==
  /\ pc = "ready"
  /\ \E sz \in ElemSizes :
       \E data \in Slices(sz) :
         LET mul == MulUsize(Len(data), sz)
         IN IF mul.panic
              THEN /\ pc' = "panicked"
                   /\ buffers' = buffers
                   /\ last' = Ret("create_buffer_from_slice", "panic")
              ELSE /\ pc' = pc
                   /\ buffers' = Append(buffers, BufferFromSlice(sz, data, mul.val))
                   /\ last' = [Ret("create_buffer_from_slice", "ok")
                                 EXCEPT !.buf = Len(buffers) + 1]
  /\ ops' = ops + 1
  /\ UNCHANGED <<profile, env, fw, images, queue, handles, kb, kernel>>

\* ----------------------------------------------------------------- images
\* the wgpu::TextureFormats of the model
Formats == {"Rgba8Unorm", "R32Float"}

\* the usage flags create_image asks for
CreateImageUsage == {"STORAGE_BINDING", "COPY_SRC", "COPY_DST", "TEXTURE_BINDING"}

\* the device's validation of a texture descriptor: no dimension may be zero
TextureValid(size) ==
  size.width > 0 /\ size.height > 0 /\ size.depth_or_array_layers > 0

\* GpuImage { fw, texture, format, size, full_view }; asked records the
\* arguments of the call, for the properties
GpuImage(width, height, format) ==
  LET size == [width |-> width, height |-> height, depth_or_array_layers |-> 1]
      texture == [size |-> size, dimension |-> "D2", format |-> format,
                  usage |-> CreateImageUsage, valid |-> TextureValid(size)]
  IN [texture |-> texture, format |-> format, size |-> size,
      \* TextureViewDescriptor::default(): the whole texture
      full_view |-> [texture |-> texture, extent |-> texture.size],
      asked |-> [width |-> width, height |-> height, format |-> format]]

\* Framework::create_image(width, height, format). The code checks nothing: a
\* descriptor the device rejects reaches the device's error handler, which
\* panics (wgpu's default on native) or records the error and lets the call
\* return the invalid texture (an error scope, on_uncaptured_error, the web)
CreateImage ==
  /\ pc = "ready"
  /\ \E width \in 0 .. MaxDim, height \in 0 .. MaxDim, format \in Formats,
        handler \in {"panic", "captured"} :
       LET image == GpuImage(width, height, format)
       IN IF ~image.texture.valid /\ handler = "panic"
            THEN /\ pc' = "panicked"
                 /\ images' = images
                 /\ last' = Ret("create_image", "panic")
            ELSE /\ image.texture.valid => handler = "captured"
                 /\ pc' = pc
                 /\ images' = Append(images, image)
                 /\ last' = [Ret("create_image", "ok") EXCEPT !.buf = Len(images) + 1]
  /\ ops' = ops + 1
  /\ UNCHANGED <<profile, env, fw, buffers, queue, handles, kb, kernel>>

\* --------------------------------------------------------- kernel builder
\* the KernelBuilder create_kernel_builder returns
KernelBuilderStale(shader, entry_point) ==
  [layouts |-> <<[set |-> 0, binding |-> 0, visibility |-> "COMPUTE",
                  kind |-> "buffer", access |-> "ReadOnly"]>>,
   descriptors |-> <<>>, sets |-> <<>>,
   shader |-> shader, entry_point |-> entry_point]
KernelBuilder(shader, entry_point) ==
  [layouts |-> <<>>, descriptors |-> <<>>, sets |-> <<>>,
   shader |-> shader, entry_point |-> entry_point]

\* Framework::create_kernel_builder(shader, entry_point); state and added
\* record what was done with the builder, for the properties
CreateKernelBuilder ==
  /\ pc = "ready"
  /\ kb = NoBuilder
  /\ kb' = [state |-> "accumulating", added |-> <<>>,
            builder |-> KernelBuilder("shader", "main")]
  /\ last' = Ret("create_kernel_builder", "ok")
  /\ UNCHANGED <<pc, profile, env, fw, buffers, images, queue, handles, kernel, ops>>

\* the next free binding index of a set
NextSlot(builder, set) ==
  Len(SelectSeq(builder.layouts, LAMBDA l : l.set = set))

\* the builder with one more resource bound in a set
Added(builder, kind, resource, access, set) ==
  LET binding == NextSlot(builder, set)
  IN [builder EXCEPT
        !.layouts = Append(@, [set |-> set, binding |-> binding,
                               visibility |-> "COMPUTE", kind |-> kind,
                               access |-> access]),
        !.descriptors = Append(@, [set |-> set, binding |-> binding,
                                   resource |-> resource])]

Add(op, kind, resource, access, set) ==
  /\ pc = "ready"
  /\ kb.state = "accumulating"
  /\ Len(kb.added) < MaxBindings
  /\ kb' = [kb EXCEPT !.builder = Added(@, kind, resource, access, set),
                      !.added = Append(@, [set |-> set, resource |-> resource])]
  /\ last' = Ret(op, "ok")
  /\ UNCHANGED <<pc, profile, env, fw, buffers, images, queue, handles, kernel, ops>>

\* KernelBuilder::add_buffer(buffer, access, set_index)
AddBuffer ==
  \E b \in 1 .. Len(buffers), access \in {"ReadOnly", "ReadWrite"}, set \in 0 .. MaxSet :
    Add("add_buffer", "buffer", <<"buffer", b>>, access, set)

\* KernelBuilder::add_image(image_view, access, set_index)
AddImage ==
  \E i \in 1 .. Len(images), access \in {"ReadOnly", "ReadWrite"}, set \in 0 .. MaxSet :
    Add("add_image", "image", <<"image", i>>, access, set)

\* the bind group of a set: the resource at each binding index
BindGroup(builder, set) ==
  {<<d.binding, d.resource>> :
     d \in {builder.descriptors[k] : k \in {j \in 1 .. Len(builder.descriptors) :
                                             builder.descriptors[j].set = set}}}

\* KernelBuilder::build(): the builder is consumed; the pipeline is made from
\* the shader and the layouts, unless the shader expects another layout
Build ==
  /\ pc = "ready"
  /\ kb.state = "accumulating"
  /\ \E shaderMatches \in BOOLEAN :
       LET sets == [s \in 0 .. MaxSet |-> BindGroup(kb.builder, s)]
       IN IF shaderMatches
            THEN /\ kernel' = [state |-> "built",
                               pipeline |-> [shader |-> kb.builder.shader,
                                             entry_point |-> kb.builder.entry_point,
                                             layouts |-> kb.builder.layouts],
                               sets |-> sets]
                 /\ kb' = [kb EXCEPT !.state = "built", !.builder.sets = sets]
                 /\ last' = Ret("build", "ok")
            ELSE /\ kernel' = kernel
                 /\ kb' = [kb EXCEPT !.state = "failed"]
                 /\ last' = Ret("build", "LayoutMismatch")
  /\ UNCHANGED <<pc, profile, env, fw, buffers, images, queue, handles, ops>>

\* ----------------------------------------------------------------- device
\* the handles whose read has not resolved yet
PendingHandles(hs) == {h \in 1 .. Len(hs) : hs[h].state # "resolved"}

\* the operations pending on the device: queued commands and unresolved reads
NumPending == Len(queue) + Cardinality(PendingHandles(handles))

\* bytes `bs` copied over `mem` from byte offset `at` on
Overwrite(mem, at, bs) ==
  [i \in 1 .. Len(mem) |->
     IF i > at /\ i <= at + Len(bs) THEN bs[i - at] ELSE mem[i]]

\* the device executes one command: st is [bufs, hs]
Exec(cmd, st) ==
  IF cmd.op = "write"
    THEN [st EXCEPT !.bufs[cmd.buf].data = Overwrite(@, cmd.at, cmd.bytes)]
    ELSE [st EXCEPT !.hs[cmd.handle].state = "copied",
                    !.hs[cmd.handle].bytes = st.bufs[cmd.buf].data]

RECURSIVE ExecAll(_, _)
ExecAll(q, st) == IF q = <<>> THEN st ELSE ExecAll(Tail(q), Exec(Head(q), st))

\* the map_async callback of a staging buffer whose copy has landed
Resolve(h) ==
  IF h.state # "copied" THEN h
  ELSE IF "MAP_READ" \in h.usage
    THEN [h EXCEPT !.state = "resolved", !.result = "ok",
                   !.out = cast_bytes(h.bytes, h.elemSize)]
    ELSE [h EXCEPT !.state = "resolved", !.result = "MapError"]

\* wgpu's Device::poll(maintain): Wait blocks until the submitted work is done,
\* Poll only looks at what is done already; both fire the map callbacks due
DevicePoll(maintain, q, bufs, hs) ==
  LET done == IF maintain = "Wait" THEN ExecAll(q, [bufs |-> bufs, hs |-> hs])
              ELSE [bufs |-> bufs, hs |-> hs]
  IN [panic |-> FALSE,
      queue |-> IF maintain = "Wait" THEN <<>> ELSE q,
      bufs |-> done.bufs,
      hs |-> [h \in 1 .. Len(done.hs) |-> Resolve(done.hs[h])]]

\* Framework::poll(): device.poll(Maintain::Poll)
FrameworkPollSkipped(q, bufs, hs) ==
  [panic |-> FALSE, queue |-> q, bufs |-> bufs, hs |-> hs]
FrameworkPollAssertsWork(q, bufs, hs) ==
  [DevicePoll("Poll", q, bufs, hs) EXCEPT
     !.panic = (q = <<>> /\ PendingHandles(hs) = {})]
FrameworkPoll(q, bufs, hs) == DevicePoll("Poll", q, bufs, hs)

\* Framework::blocking_poll(): device.poll(Maintain::Wait)
FrameworkBlockingPollNoWait(q, bufs, hs) == DevicePoll("Poll", q, bufs, hs)
FrameworkBlockingPoll(q, bufs, hs) == DevicePoll("Wait", q, bufs, hs)

\* the device works through its queue on its own, in submission order
GpuStep ==
  /\ pc = "ready"
  /\ queue # <<>>
  /\ LET st == Exec(Head(queue), [bufs |-> buffers, hs |-> handles])
     IN /\ buffers' = st.bufs
        /\ handles' = st.hs
  /\ queue' = Tail(queue)
  /\ UNCHANGED <<pc, profile, env, fw, images, kb, kernel, ops, last>>

\* Framework::create_staging_buffer(size) and the copy + map_async of a read
Staging(b, size) ==
  [buf |-> b, elemSize |-> buffers[b].elemSize, size |-> AsU64(size),
   usage |-> StagingUsage, state |-> "pending", bytes |-> <<>>,
   result |-> "none", out |-> NoData]

\* GpuBuffer::write(offset, data)
Write ==
  /\ pc = "ready"
  /\ \E b \in 1 .. Len(buffers) :
       LET sz == buffers[b].elemSize
           capacity == buffers[b].size \div sz
       IN \E offset \in 0 .. MaxData, data \in Slices(sz) :
            IF offset + Len(data) > capacity
              THEN /\ last' = [Ret("write", "OutOfBounds") EXCEPT !.buf = b]
                   /\ UNCHANGED <<buffers, queue>>
            ELSE IF "COPY_DST" \notin buffers[b].usage
              THEN /\ last' = [Ret("write", "ValidationError") EXCEPT !.buf = b]
                   /\ UNCHANGED <<buffers, queue>>
            ELSE
              /\ queue' = IF data = <<>> THEN queue
                          ELSE Append(queue, [op |-> "write", buf |-> b, handle |-> 0,
                                              at |-> offset * sz,
                                              bytes |-> cast_slice(data, sz)])
              /\ buffers' = [buffers EXCEPT
                   ![b].phase = IF @ = "fresh_empty" /\ offset = 0
                                   /\ Len(data) = buffers[b].len
                                THEN "written_full" ELSE "other",
                   ![b].pdata = IF buffers[b].phase = "fresh_empty" /\ offset = 0
                                   /\ Len(data) = buffers[b].len
                                THEN data ELSE NoData]
              /\ last' = [Ret("write", "ok") EXCEPT !.buf = b]
  /\ ops' = ops + 1
  /\ UNCHANGED <<pc, profile, env, fw, images, handles, kb, kernel>>

\* GpuBuffer::read(): staging buffer, copy, map_async, then blocking_poll on the
\* Framework until the device has made the staging buffer readable
Read ==
  /\ pc = "ready"
  /\ \E b \in 1 .. Len(buffers) :
       LET rec == [Ret("read", "ok") EXCEPT !.buf = b, !.from = buffers[b].phase,
                                           !.data = buffers[b].pdata,
                                           !.npend = NumPending]
           mine == Len(handles) + 1
           copy == [op |-> "copy", buf |-> b, handle |-> mine, at |-> 0,
                    bytes |-> <<>>]
           done == FrameworkBlockingPoll(Append(queue, copy), buffers,
                                         Append(handles, Staging(b, buffers[b].size)))
       IN IF "COPY_SRC" \notin buffers[b].usage
            THEN /\ last' = [rec EXCEPT !.ret = "ValidationError"]
                 /\ UNCHANGED <<buffers, queue, handles>>
            ELSE /\ queue' = done.queue
                 /\ handles' = SubSeq(done.hs, 1, Len(handles))
                 /\ buffers' = [i \in 1 .. Len(buffers) |->
                      IF i = b THEN [done.bufs[i] EXCEPT !.phase = "other",
                                                         !.pdata = NoData]
                      ELSE done.bufs[i]]
                 /\ last' = [rec EXCEPT !.ret = done.hs[mine].result,
                                        !.out = done.hs[mine].out]
  /\ ops' = ops + 1
  /\ UNCHANGED <<pc, profile, env, fw, images, kb, kernel>>

\* GpuBuffer::read_async(): the same staging buffer, copy and map_async, but
\* the future is handed back unresolved
ReadAsync ==
  /\ pc = "ready"
  /\ \E b \in 1 .. Len(buffers) :
       LET rec == [Ret("read_async", "ok") EXCEPT !.buf = b, !.npend = NumPending]
           mine == Len(handles) + 1
       IN IF "COPY_SRC" \notin buffers[b].usage
            THEN /\ last' = [rec EXCEPT !.ret = "ValidationError"]
                 /\ UNCHANGED <<buffers, queue, handles>>
            ELSE /\ handles' = Append(handles, Staging(b, buffers[b].size))
                 /\ queue' = Append(queue, [op |-> "copy", buf |-> b, handle |-> mine,
                                            at |-> 0, bytes |-> <<>>])
                 /\ buffers' = [buffers EXCEPT ![b].phase = "other",
                                               ![b].pdata = NoData]
                 /\ last' = rec
  /\ ops' = ops + 1
  /\ UNCHANGED <<pc, profile, env, fw, images, kb, kernel>>

\* what a poll of the Framework leaves behind
Polled(op, r) ==
  /\ pc' = IF r.panic THEN "panicked" ELSE pc
  /\ queue' = r.queue
  /\ buffers' = r.bufs
  /\ handles' = r.hs
  /\ last' = [Ret(op, IF r.panic THEN "panic" ELSE "ok") EXCEPT !.npend = NumPending]
  /\ UNCHANGED <<profile, env, fw, images, kb, kernel, ops>>

\* Framework::poll()
Poll ==
  /\ pc = "ready"
  /\ Polled("poll", FrameworkPoll(queue, buffers, handles))

\* Framework::blocking_poll()
BlockingPoll ==
  /\ pc = "ready"
  /\ Polled("blocking_poll", FrameworkBlockingPoll(queue, buffers, handles))

\* ------------------------------------------------- buffer specification
Next ==
  \/ Default
  \/ New
  \/ (ops < MaxOps /\ Len(buffers) < MaxBuffers /\ CreateBuffer)
  \/ (ops < MaxOps /\ Len(buffers) < MaxBuffers /\ CreateBufferFromSlice)
  \/ (ops < MaxOps /\ Write)
  \/ (ops < MaxOps /\ Read)
  \/ GpuStep

Spec == Init /\ [][Next]_vars


\* C1: every buffer records the byte size element_count * size_of::<T>() and
\* the device was asked for an allocation of that same size
BufferSizeIsCountTimesElemSize ==
  \A b \in 1 .. Len(buffers) :
    /\ buffers[b].size = buffers[b].len * buffers[b].elemSize
    /\ buffers[b].devSize = buffers[b].size

\* C10: the byte size is the mathematical product len * size_of::<T>(), never
\* that product modulo 2^WordBits, and no buffer is smaller than was asked for
SizeNeverWraps ==
  \A b \in 1 .. Len(buffers) :
    LET product == buffers[b].len * buffers[b].elemSize
    IN /\ product > UsizeMax => buffers[b].size # product % UsizeCard
       /\ Len(buffers[b].data) >= product

\* C2: a blocking read right after create_buffer_from_slice(data), data not
\* empty, returns data
FromSliceReadsBack ==
  (last.op = "read" /\ last.from = "fresh_slice" /\ last.data # <<>>)
    => (last.ret = "ok" /\ last.out = last.data)

FromSliceReadBackSeen ==
  /\ last.op = "read"
  /\ last.from = "fresh_slice"
  /\ Len(last.data) = MaxData
  /\ last.out = last.data

\* C3: create_buffer(N), then a write of N elements at offset 0, then a
\* blocking read, returns the elements written (N = 0 included)
WriteReadsBack ==
  (last.op = "read" /\ last.from = "written_full")
    => (last.ret = "ok" /\ last.out = last.data)

WriteReadBackSeen ==
  /\ last.op = "read"
  /\ last.from = "written_full"
  /\ Len(last.data) = MaxData
  /\ buffers[last.buf].len = MaxData
  /\ last.out = last.data

\* C7: default construction yields a Framework only with both the adapter and
\* the device obtained; when either is missing the process panics with no
\* Framework, and nothing runs after that
DefaultNeedsAdapterAndDevice ==
  /\ fw.via = "default" => (env.adapter = "adapter" /\ env.device = "device")
  /\ (env.adapter = "None" \/ env.device = "Err")
       => (pc = "panicked" /\ fw = NoFramework /\ ops = 0
           /\ last = Ret("default", "panic"))

DefaultFailedOnDevice ==
  /\ env.adapter = "adapter"
  /\ env.device = "Err"
  /\ pc = "panicked"

\* ------------------------------------------------- polling specification
\* the polling specification starts where the host has made its Framework from
\* its own wgpu objects and created one buffer from a slice
InitPoll ==
  /\ pc = "ready"
  /\ profile \in {"debug", "release"}
  /\ env = NoEnv
  /\ fw = [via |-> "new", instance |-> "instance", device |-> "device",
           queue |-> "queue"]
  /\ \E sz \in ElemSizes :
       \E data \in Slices(sz) :
         buffers = <<SliceBuffer(sz, data)>>
  /\ images = <<>>
  /\ queue = <<>>
  /\ handles = <<>>
  /\ kb = NoBuilder
  /\ kernel = NoKernel
  /\ ops = 0
  /\ last = [Ret("create_buffer_from_slice", "ok") EXCEPT !.buf = 1]

NextPoll ==
  \/ (ops < MaxPollOps /\ Write)
  \/ (ops < MaxPollOps /\ ReadAsync)
  \/ (ops < MaxPollOps /\ Read)
  \/ Poll
  \/ BlockingPoll
  \/ GpuStep

\* the device gets its submitted work done, and the caller keeps polling
PollSpec == InitPoll /\ [][NextPoll]_vars /\ WF_vars(GpuStep) /\ WF_vars(Poll)

\* C4: when blocking_poll has returned, nothing submitted before is pending:
\* the queue is empty and every asynchronous read has resolved
BlockingPollLeavesNothingPending ==
  last.op = "blocking_poll" => (queue = <<>> /\ PendingHandles(handles) = {})

BlockingPollHadPending ==
  /\ last.op = "blocking_poll"
  /\ last.npend > Len(handles)
  /\ Len(handles) > 0

\* the asynchronous reads that resolve in the step
Resolving ==
  {h \in 1 .. Len(handles) :
     handles[h].state # "resolved" /\ handles'[h].state = "resolved"}

\* C5: an asynchronous read resolves only in a step that polls the Framework
\* (poll, blocking_poll, or the blocking_poll inside a blocking read), and
\* while the caller keeps polling every asynchronous read does resolve
AsyncReadResolvesByPolling ==
  /\ [][Resolving # {} => (Poll \/ BlockingPoll \/ Read)]_vars
  /\ \A h \in 1 .. MaxPollOps :
       (Len(handles) >= h /\ handles[h].state # "resolved")
         ~> (Len(handles) >= h /\ handles[h].state = "resolved")

AsyncReadResolvedByPoll ==
  /\ last.op = "poll"
  /\ last.npend > 0
  /\ Len(handles) > 0
  /\ handles[Len(handles)].state = "resolved"
  /\ handles[Len(handles)].out # <<>>

\* C6: poll() with nothing pending changes nothing and does not fail
IdlePollIsNoOp ==
  [][(Poll /\ queue = <<>> /\ PendingHandles(handles) = {})
       => (/\ UNCHANGED <<pc, profile, env, fw, buffers, images, queue, handles,
                          kb, kernel, ops>>
           /\ last'.ret = "ok")]_vars

IdlePollSeen ==
  /\ last.op = "poll"
  /\ last.npend = 0
  /\ last.ret = "ok"
  /\ Len(handles) > 0

\* --------------------------------------------------- image specification
NextImage ==
  \/ Default
  \/ New
  \/ (Len(images) < MaxImages /\ CreateImage)

ImageSpec == Init /\ [][NextImage]_vars

\* C8: every image has width > 0 and height > 0, depth 1, a default view of
\* its whole extent, and the format it was created with
ImagesWellFormed ==
  \A i \in 1 .. Len(images) :
    /\ images[i].size.width > 0
    /\ images[i].size.height > 0
    /\ images[i].size.depth_or_array_layers = 1
    /\ images[i].full_view.extent = images[i].size
    /\ images[i].format = images[i].asked.format

\* -------------------------------------------------- kernel specification
\* the kernel specification starts where the host has made its Framework from
\* its own wgpu objects and created three buffers and an image to bind
InitKernel ==
  /\ pc = "ready"
  /\ profile \in {"debug", "release"}
  /\ env = NoEnv
  /\ fw = [via |-> "new", instance |-> "instance", device |-> "device",
           queue |-> "queue"]
  /\ buffers = <<SliceBuffer(1, <<Small(1)>>), SliceBuffer(1, <<Big(1)>>),
                 SliceBuffer(2, <<Small(2)>>)>>
  /\ images = <<GpuImage(1, 1, "Rgba8Unorm")>>
  /\ queue = <<>>
  /\ handles = <<>>
  /\ kb = NoBuilder
  /\ kernel = NoKernel
  /\ ops = 0
  /\ last = [Ret("create_image", "ok") EXCEPT !.buf = 1]

NextKernel ==
  \/ CreateKernelBuilder
  \/ AddBuffer
  \/ AddImage
  \/ Build

KernelSpec == InitKernel /\ [][NextKernel]_vars

\* the resources added to a set, in the order of the calls
AddedTo(set) == SelectSeq(kb.added, LAMBDA a : a.set = set)

\* C9: a new builder is empty, and in every set the k resources added have
\* the binding indices 0 .. k-1 in the order they were added, in the builder's
\* layouts and descriptors and in the bind groups of the Kernel built from it
BindingsFollowAddOrder ==
  /\ last.op = "create_kernel_builder"
       => (/\ kb.builder.layouts = <<>>
           /\ kb.builder.descriptors = <<>>
           /\ kb.builder.sets = <<>>)
  /\ kb # NoBuilder =>
       \A s \in 0 .. MaxSet :
         LET mine == AddedTo(s)
             layouts == SelectSeq(kb.builder.layouts, LAMBDA l : l.set = s)
             descriptors == SelectSeq(kb.builder.descriptors, LAMBDA d : d.set = s)
         IN /\ Len(layouts) = Len(mine)
            /\ Len(descriptors) = Len(mine)
            /\ \A i \in 1 .. Len(mine) :
                 /\ layouts[i].binding = i - 1
                 /\ descriptors[i].binding = i - 1
                 /\ descriptors[i].resource = mine[i].resource
            /\ kernel # NoKernel =>
                 kernel.sets[s] = {<<i - 1, mine[i].resource>> : i \in 1 .. Len(mine)}

ThreeBuffersBuiltInOrder ==
  /\ kernel # NoKernel
  /\ kb.added = <<[set |-> 0, resource |-> <<"buffer", 1>>],
                  [set |-> 0, resource |-> <<"buffer", 2>>],
                  [set |-> 0, resource |-> <<"buffer", 3>>]>>
  /\ kernel.sets[0] = {<<0, <<"buffer", 1>>>>, <<1, <<"buffer", 2>>>>,
                       <<2, <<"buffer", 3>>>>}

====
